---- MODULE Spec2Model ----
(***************************************************************************)
(* mongo-notify (src/src/server.ts): the WebSocket gateway that relays     *)
(* MongoDB change events to authenticated, rate-limited subscribers.       *)
(*                                                                         *)
(* State: the process phase, the environment (MONGODB_URI, TOKEN), the     *)
(* clock (Date.now()), the rate map ipConnections, the registry            *)
(* activeSockets (a JS Set: insertion ordered, no duplicates), and for     *)
(* every WebSocket its readyState and the frames it has been sent.         *)
(* History variables (lastUpgrade, lastBroadcast, admittedBy, winFirst,    *)
(* winSeen, allowedLog) record what the handlers did; no handler reads     *)
(* them.                                                                   *)
(***************************************************************************)
EXTENDS Integers, Sequences, FiniteSets, TLC

VARIABLES phase, MONGODB_URI, TOKEN, now, ipConnections, activeSockets,
          readyState, received, eventsSeen, lastUpgrade, lastBroadcast,
          admittedBy, winFirst, winSeen, allowedLog, feed, deleteCalls,
          lastError, diffCall

vars == <<phase, MONGODB_URI, TOKEN, now, ipConnections, activeSockets,
          readyState, received, eventsSeen, lastUpgrade, lastBroadcast,
          admittedBy, winFirst, winSeen, allowedLog, feed, deleteCalls,
          lastError, diffCall>>

(***************************************************************************)
(* Bounds of the model.                                                    *)
(***************************************************************************)
\* WebSockets that may be admitted in one run (ids 1..MaxConns).
MaxConns == 2
\* Change events the upstream source produces in one run.
MaxEvents == 2
\* The clock's first value, in ms (Date.now() when the process starts).
StartNow == 1000000
\* Attempts counted in one window by the history variable winSeen.
MaxSeen == 6
\* Entries kept in the history variable allowedLog, per address.
MaxLog == 12
\* The fine clock has the instants StartNow + k*RATE_LIMIT_WINDOW (+1 ms), k in 0..ClockSpan.
ClockSpan == 1
MaxNum == 2

(***************************************************************************)
(* Program constants.                                                      *)
(***************************************************************************)
RATE_LIMIT_WINDOW == 60 * 1000
MAX_CONNECTIONS_PER_IP == 5
\* validateToken's freshness window, 5 * 60 * 1000 ms.
FRESH_WINDOW == 5 * 60 * 1000
\* Length of the hex encoding of a SHA-256 digest.
HexDigestLen == 64

Conns == 1..MaxConns

\* undefined / null / a missing header or query parameter.
Absent == "<absent>"

Abs(x) == IF x < 0 THEN -x ELSE x

Min(S) == CHOOSE x \in S : \A y \in S : x <= y

\* JavaScript truthiness of a string-or-undefined value.
Truthy(v) == v # Absent /\ v # ""

(***************************************************************************)
(* Credentials.  A timestamp string is modelled by how parseInt reads it:  *)
(*   kind "dec"     the decimal numeral of n                               *)
(*   kind "decjunk" the decimal numeral of n followed by other characters  *)
(*   kind "junk"    no leading numeral                                     *)
(*   kind "null"    the parameter is missing or empty (|| null)            *)
(* A token is a byte string: its length, and either the hex HMAC-SHA256 of *)
(* msg under key (kind "hmac") or some other string (kind "raw", named by  *)
(* id).  HMAC is taken to be collision free: two hex digests are equal iff *)
(* key and message are equal.                                              *)
(***************************************************************************)
TsString(kind, n) == [kind |-> kind, n |-> n]
NullTs == TsString("null", 0)

NullToken == [kind |-> "null", len |-> 0, key |-> "", msg |-> NullTs, id |-> ""]
RawToken(id, len) == [kind |-> "raw", len |-> len, key |-> "", msg |-> NullTs, id |-> id]

\* crypto.createHmac('sha256', key).update(msg).digest('hex')
HmacHex(key, msg) ==
  [kind |-> "hmac", len |-> HexDigestLen, key |-> key, msg |-> msg, id |-> ""]

\* parseInt(timestamp, 10): the leading numeral, or NaN.
parseInt(ts) ==
  IF ts.kind \in {"dec", "decjunk"} THEN [nan |-> FALSE, val |-> ts.n]
  ELSE [nan |-> TRUE, val |-> 0]

\* crypto.timingSafeEqual: a RangeError when the byte lengths differ.
timingSafeEqual(a, b) ==
  IF a.len # b.len THEN "throw"
  ELSE IF a = b THEN "true" ELSE "false"

\* validateToken without the freshness test.
validateToken_NoFreshness(token, timestamp, secret, t) ==
  IF token.kind = "null" \/ timestamp.kind = "null" \/ secret = "" THEN "false"
  ELSE IF parseInt(timestamp).nan THEN "false"
  ELSE timingSafeEqual(token, HmacHex(secret, timestamp))

\* validateToken accepting only timestamps in the past.
validateToken_PastOnly(token, timestamp, secret, t) ==
  IF token.kind = "null" \/ timestamp.kind = "null" \/ secret = "" THEN "false"
  ELSE IF parseInt(timestamp).nan THEN "false"
  ELSE IF t - parseInt(timestamp).val > FRESH_WINDOW
          \/ t - parseInt(timestamp).val < 0 THEN "false"
  ELSE timingSafeEqual(token, HmacHex(secret, timestamp))

\* validateToken(token, timestamp) with TOKEN = secret and Date.now() = t:
\* "true", "false", or "throw" when it raises.
validateToken(token, timestamp, secret, t) ==
  IF token.kind = "null" \/ timestamp.kind = "null" \/ secret = "" THEN "false"
  ELSE IF parseInt(timestamp).nan THEN "false"
  ELSE IF Abs(t - parseInt(timestamp).val) > FRESH_WINDOW THEN "false"
  ELSE timingSafeEqual(token, HmacHex(secret, timestamp))

(***************************************************************************)
(* Rate limiter.  A missing map entry is the record with count 0.          *)
(***************************************************************************)
NoRecord == [count |-> 0, resetTime |-> 0]

\* checkRateLimit starting a new window already at now = resetTime.
checkRateLimit_ResetAtEqual(map, ip, t) ==
  LET connectionInfo == map[ip] IN
  IF connectionInfo = NoRecord \/ t >= connectionInfo.resetTime
  THEN [allowed |-> TRUE,
        map |-> [map EXCEPT ![ip] = [count |-> 1, resetTime |-> t + RATE_LIMIT_WINDOW]]]
  ELSE IF connectionInfo.count >= MAX_CONNECTIONS_PER_IP
  THEN [allowed |-> FALSE, map |-> map]
  ELSE [allowed |-> TRUE,
        map |-> [map EXCEPT ![ip] = [@ EXCEPT !.count = @ + 1]]]

\* checkRateLimit refusing only from the attempt after the maximum (count > max).
checkRateLimit_OffByOne(map, ip, t) ==
  LET connectionInfo == map[ip] IN
  IF connectionInfo = NoRecord \/ t > connectionInfo.resetTime
  THEN [allowed |-> TRUE,
        map |-> [map EXCEPT ![ip] = [count |-> 1, resetTime |-> t + RATE_LIMIT_WINDOW]]]
  ELSE IF connectionInfo.count > MAX_CONNECTIONS_PER_IP
  THEN [allowed |-> FALSE, map |-> map]
  ELSE [allowed |-> TRUE,
        map |-> [map EXCEPT ![ip] = [@ EXCEPT !.count = @ + 1]]]

\* checkRateLimit pushing the reset time forward on every attempt it allows.
checkRateLimit_SlidingWindow(map, ip, t) ==
  LET connectionInfo == map[ip] IN
  IF connectionInfo = NoRecord \/ t > connectionInfo.resetTime
  THEN [allowed |-> TRUE,
        map |-> [map EXCEPT ![ip] = [count |-> 1, resetTime |-> t + RATE_LIMIT_WINDOW]]]
  ELSE IF connectionInfo.count >= MAX_CONNECTIONS_PER_IP
  THEN [allowed |-> FALSE, map |-> map]
  ELSE [allowed |-> TRUE,
        map |-> [map EXCEPT ![ip] = [count |-> @.count + 1,
                                     resetTime |-> t + RATE_LIMIT_WINDOW]]]

\* checkRateLimit counting the attempts it refuses.
checkRateLimit_CountRefused(map, ip, t) ==
  LET connectionInfo == map[ip] IN
  IF connectionInfo = NoRecord \/ t > connectionInfo.resetTime
  THEN [allowed |-> TRUE,
        map |-> [map EXCEPT ![ip] = [count |-> 1, resetTime |-> t + RATE_LIMIT_WINDOW]]]
  ELSE [allowed |-> connectionInfo.count < MAX_CONNECTIONS_PER_IP,
        map |-> [map EXCEPT ![ip] = [@ EXCEPT !.count = Min({@ + 1, MAX_CONNECTIONS_PER_IP + 1})]]]

\* checkRateLimit(ip) at Date.now() = t: the result and the map afterwards.
checkRateLimit(map, ip, t) ==
  LET connectionInfo == map[ip] IN
  IF connectionInfo = NoRecord \/ t > connectionInfo.resetTime
  THEN [allowed |-> TRUE,
        map |-> [map EXCEPT ![ip] = [count |-> 1, resetTime |-> t + RATE_LIMIT_WINDOW]]]
  ELSE IF connectionInfo.count >= MAX_CONNECTIONS_PER_IP
  THEN [allowed |-> FALSE, map |-> map]
  ELSE [allowed |-> TRUE,
        map |-> [map EXCEPT ![ip] = [@ EXCEPT !.count = @ + 1]]]

(***************************************************************************)
(* Source address of an upgrade request.                                   *)
(***************************************************************************)
ipHeaders ==
  << "x-forwarded-for", "x-real-ip", "cf-connecting-ip", "x-forwarded",
     "true-client-ip", "x-client-ip", "x-cluster-client-ip",
     "fastly-client-ip", "x-appengine-user-ip" >>

HeaderNames == {ipHeaders[i] : i \in 1..Len(ipHeaders)}

\* ipHeaders.find(header => req.headers[header]): the first ELEMENT of
\* ipHeaders (a header name) whose header is truthy, or undefined.
FindHeader(headers) ==
  LET hits == {i \in 1..Len(ipHeaders) : Truthy(headers[ipHeaders[i]])} IN
  IF hits = {} THEN Absent ELSE ipHeaders[Min(hits)]

\* const ip = ipHeaders.find(...) || req.socket.remoteAddress || 'unknown'
DeriveIp(headers, remoteAddress) ==
  IF Truthy(FindHeader(headers)) THEN FindHeader(headers)
  ELSE IF Truthy(remoteAddress) THEN remoteAddress
  ELSE "unknown"

(***************************************************************************)
(* Upgrade requests.                                                       *)
(***************************************************************************)
Addresses == {"10.0.0.1", "10.0.0.2"}
PeerAddress == "192.168.0.9"
Secrets == {"s1", "s2"}

\* Every string checkRateLimit can be called with.
IpKeys == HeaderNames \cup Addresses \cup {PeerAddress, "unknown"}

NoHeaders == [h \in HeaderNames |-> Absent]

Req(pathname, headers, remoteAddress, token, time, handshakeOk) ==
  [pathname |-> pathname, headers |-> headers, remoteAddress |-> remoteAddress,
   token |-> token, time |-> time, handshakeOk |-> handshakeOk]

NoRequest == Req("", NoHeaders, Absent, NullToken, NullTs, FALSE)

\* A client that holds the secret: a fresh timestamp and its HMAC.
GoodToken(secret, t) == HmacHex(secret, TsString("dec", t))
BadToken == RawToken("deadbeef", HexDigestLen)

\* Gateway runs, one peer: a good request, one with a wrong credential, one
\* whose handshake handleUpgrade refuses, and one on another path.
GatewayRequests(secret, t) ==
  { Req("/ws", NoHeaders, PeerAddress, GoodToken(secret, t), TsString("dec", t), TRUE),
    Req("/ws", NoHeaders, PeerAddress, BadToken, TsString("dec", t), TRUE),
    Req("/ws", NoHeaders, PeerAddress, GoodToken(secret, t), TsString("dec", t), FALSE),
    Req("/other", NoHeaders, PeerAddress, GoodToken(secret, t), TsString("dec", t), TRUE) }

\* Credential runs: timestamps around the freshness boundary, on both sides.
TimeStrings(t) ==
  { TsString("dec", t + d) :
      d \in {0 - FRESH_WINDOW - 1, 0 - FRESH_WINDOW, 0, FRESH_WINDOW, FRESH_WINDOW + 1} }
  \cup { TsString("decjunk", t), TsString("junk", 0), NullTs }

\* Tokens sent with timestamp ts: its HMAC under either secret, the HMAC of
\* the current time (a token replayed with another timestamp), strings that
\* are shorter than, as long as and longer than a hex digest, and none.
TokensFor(ts, secret, t) ==
  { HmacHex(s, ts) : s \in Secrets }
  \cup { GoodToken(secret, t) }
  \cup { RawToken("abc", 3), BadToken, RawToken("longer", HexDigestLen + 6), NullToken }

AuthRequests(secret, t) ==
  UNION { { Req("/ws", NoHeaders, PeerAddress, tok, ts, TRUE) :
              tok \in TokensFor(ts, secret, t) } : ts \in TimeStrings(t) }

\* Address runs: the two first forwarding headers, present or not.
TestedHeaders == {ipHeaders[1], ipHeaders[2]}
HeaderValues == {Absent, ""} \cup Addresses
HeaderSets ==
  { [h \in HeaderNames |-> IF h \in TestedHeaders THEN f[h] ELSE Absent] :
      f \in [TestedHeaders -> HeaderValues] }

AddrRequests(secret, t) ==
  { Req("/ws", hd, ra, tok, TsString("dec", t), TRUE) :
      hd \in HeaderSets, ra \in {Absent, PeerAddress},
      tok \in {GoodToken(secret, t)} }

\* Rate runs: two peers, no forwarding header.
RateRequests(secret, t) ==
  { Req("/ws", NoHeaders, ra, tok, TsString("dec", t), TRUE) :
      ra \in Addresses, tok \in {BadToken} }

(***************************************************************************)
(* Clocks.                                                                 *)
(***************************************************************************)
FineClock == { StartNow + k * RATE_LIMIT_WINDOW + e : k \in 0..ClockSpan, e \in {0, 1} }
CoarseClock == { StartNow, StartNow + RATE_LIMIT_WINDOW + 1 }

(***************************************************************************)
(* The registry: a JS Set, kept as a duplicate-free sequence in insertion  *)
(* order.                                                                  *)
(***************************************************************************)
Members(seq) == {seq[i] : i \in 1..Len(seq)}

\* activeSockets.add(ws)
SetAdd(seq, ws) == IF ws \in Members(seq) THEN seq ELSE Append(seq, ws)

\* A close handler that forgets to delete.
SetDelete_Noop(seq, ws) == seq

\* activeSockets.delete(ws)
SetDelete(seq, ws) == SelectSeq(seq, LAMBDA x : x # ws)

\* The frame of one change event: JSON.stringify({type: 'db_change', data: change}).
Frame(change) == [type |-> "db_change", data |-> change]

RECURSIVE broadcastFrom(_, _, _, _, _, _)
\* The loop of broadcast from position i on: send to every OPEN socket in
\* insertion order; the socket `bad` (0: none) is the one whose send raises.
broadcastFrom(i, sockets, states, recv, payload, bad) ==
  IF i > Len(sockets) THEN [received |-> recv, threw |-> FALSE]
  ELSE LET ws == sockets[i] IN
       IF states[ws] = "OPEN"
       THEN IF ws = bad
            THEN [received |-> recv, threw |-> TRUE]
            ELSE broadcastFrom(i + 1, sockets, states,
                               [recv EXCEPT ![ws] = Append(@, payload)], payload, bad)
       ELSE broadcastFrom(i + 1, sockets, states, recv, payload, bad)

\* broadcast that sends without looking at readyState.
broadcast_NoStateCheck(sockets, states, recv, data, bad) ==
  broadcastFrom(1, sockets, [c \in DOMAIN states |-> "OPEN"], recv, data, bad)

\* broadcast(data): the frames received afterwards, and whether it raised.
broadcast(sockets, states, recv, data, bad) ==
  broadcastFrom(1, sockets, states, recv, data, bad)

(***************************************************************************)
(* The upgrade handler's gates.                                            *)
(***************************************************************************)
\* The handler without the token gate.
UpgradeOutcome_NoTokenGate(pathname, allowed, valid, handshakeOk) ==
  IF pathname # "/ws" THEN "destroyed"
  ELSE IF ~allowed THEN "429"
  ELSE IF ~handshakeOk THEN "aborted"
  ELSE "admitted"

\* How server.on('upgrade') ends: "destroyed" (other path), "429", "401",
\* "threw" (validateToken raised), "aborted" (handleUpgrade refused the
\* handshake and never called back) or "admitted".
UpgradeOutcome(pathname, allowed, valid, handshakeOk) ==
  IF pathname # "/ws" THEN "destroyed"
  ELSE IF ~allowed THEN "429"
  ELSE IF valid = "throw" THEN "threw"
  ELSE IF valid # "true" THEN "401"
  ELSE IF ~handshakeOk THEN "aborted"
  ELSE "admitted"

(***************************************************************************)
(* generateDiff and the values it is given.                                *)
(***************************************************************************)
\* A value as JSON.parse returns it: a number, null, an object or an array;
\* undefined is what a missing key reads as.  kids lists the own enumerable
\* keys of an object or array in the order Object.keys returns them.
JNum(n) == [t |-> "number", n |-> n, kids |-> << >>]
JNull == [t |-> "null", n |-> 0, kids |-> << >>]
JUndefined == [t |-> "undefined", n |-> 0, kids |-> << >>]
JObject(kids) == [t |-> "object", n |-> 0, kids |-> kids]
JArray(kids) == [t |-> "array", n |-> 0, kids |-> kids]
Kid(key, val) == [key |-> key, val |-> val]

\* val !== null && typeof val === 'object'
IsObject(val) == val.t \in {"object", "array"}

\* Object.keys(obj || {}): a number, null and undefined have no keys.
ObjectKeys(obj) ==
  IF IsObject(obj) THEN [i \in 1..Len(obj.kids) |-> obj.kids[i].key] ELSE << >>

\* new Set([...keys1, ...keys2]) in iteration order.
KeySet(keys1, keys2) ==
  keys1 \o SelectSeq(keys2, LAMBDA k : \A i \in 1..Len(keys1) : keys1[i] # k)

\* obj?.[key]
Lookup(obj, key) ==
  IF IsObject(obj) /\ \E i \in 1..Len(obj.kids) : obj.kids[i].key = key
  THEN obj.kids[CHOOSE i \in 1..Len(obj.kids) : obj.kids[i].key = key].val
  ELSE JUndefined

\* A path joined without the dot.
fullPath_NoDot(path, key) == path \o <<key>>

\* path ? `${path}.${key}` : key.  A string is the sequence of its pieces, the
\* empty string the empty sequence.
fullPath(path, key) == IF path # << >> THEN path \o <<".", key>> ELSE <<key>>

\* A comparison that finds every pair of values different.
StrictNotEqual_Always(val1, val2) == TRUE

\* val1 !== val2: two objects are never the same object (each comes out of
\* JSON.parse on its own); other values are compared by type and value.
StrictNotEqual(val1, val2) ==
  IF IsObject(val1) /\ IsObject(val2) THEN TRUE ELSE val1 # val2

\* The three shapes of DiffEntry; a field an entry does not have is undefined.
Added(path, value) ==
  [type |-> "added", path |-> path, value |-> value,
   from |-> JUndefined, to |-> JUndefined]
Removed(path, value) ==
  [type |-> "removed", path |-> path, value |-> value,
   from |-> JUndefined, to |-> JUndefined]
Changed(path, from, to) ==
  [type |-> "changed", path |-> path, value |-> JUndefined,
   from |-> from, to |-> to]

RECURSIVE generateDiff(_, _, _)
RECURSIVE generateDiffFrom(_, _, _, _, _)
\* The loop of generateDiff from the i-th key on: the entries it pushes.
generateDiffFrom(keys, i, obj1, obj2, path) ==
  IF i > Len(keys) THEN << >>
  ELSE LET key  == keys[i]
           full == fullPath(path, key)
           val1 == Lookup(obj1, key)
           val2 == Lookup(obj2, key)
           pushed ==
             IF IsObject(val1) /\ IsObject(val2)
             THEN generateDiff(val1, val2, full)
             ELSE IF StrictNotEqual(val1, val2)
             THEN IF val1 = JUndefined THEN <<Added(full, val2)>>
                  ELSE IF val2 = JUndefined THEN <<Removed(full, val1)>>
                  ELSE <<Changed(full, val1, val2)>>
             ELSE << >>
       IN pushed \o generateDiffFrom(keys, i + 1, obj1, obj2, path)

\* generateDiff(obj1, obj2, path)
generateDiff(obj1, obj2, path) ==
  generateDiffFrom(KeySet(ObjectKeys(obj1), ObjectKeys(obj2)), 1, obj1, obj2, path)

\* The values of the requests: numbers 1..MaxNum and null as leaves, objects
\* over the keys y and z (in either order) and arrays of up to two numbers
\* inside, objects over the keys a and x (and one keyed like an array), the
\* same arrays, numbers and null at top level.
Numbers == {JNum(n) : n \in 1..MaxNum}
Leaves == Numbers \cup {JNull}
IndexKeys == <<"0", "1">>

InnerObjects ==
  {JObject(<< >>)}
  \cup {JObject(<<Kid(k, v)>>) : k \in {"y", "z"}, v \in Numbers}
  \cup {JObject(<<Kid(ks[1], v), Kid(ks[2], w)>>) :
          ks \in {<<"y", "z">>, <<"z", "y">>}, v \in Numbers, w \in Numbers}

Arrays ==
  {JArray(<< >>)}
  \cup {JArray(<<Kid(IndexKeys[1], v)>>) : v \in Numbers}
  \cup {JArray(<<Kid(IndexKeys[1], v), Kid(IndexKeys[2], w)>>) :
          v \in Numbers, w \in Numbers}

TopObjects ==
  {JObject(<< >>)}
  \cup {JObject(<<Kid(IndexKeys[1], v)>>) : v \in Numbers}
  \cup {JObject(<<Kid("a", v)>>) : v \in Leaves}
  \cup {JObject(<<Kid("x", v)>>) : v \in Leaves \cup InnerObjects \cup Arrays}
  \cup {JObject(<<Kid("a", v), Kid("x", w)>>) :
          v \in Leaves, w \in Leaves \cup InnerObjects \cup Arrays}

JsonValues == Leaves \cup Arrays \cup TopObjects

\* diffCall: the POST /diff request of the run and the answer to it.
NoDiffCall ==
  [tag |-> "none", old |-> JUndefined, next |-> JUndefined, diff |-> << >>]

DiffCalls ==
  {[tag |-> "pending", old |-> a, next |-> b, diff |-> << >>] :
     a \in JsonValues, b \in JsonValues}

(***************************************************************************)
(* Initial state: the module has not been evaluated yet.                   *)
(***************************************************************************)
\* lastUpgrade: the upgrade attempt handled by the step just taken (tag "none"
\* after any other step).  admittedBy[ws]: the gates the attempt that produced
\* socket ws went through.
NoAttempt ==
  [tag |-> "none", req |-> NoRequest, ip |-> Absent,
   allowed |-> "notrun", valid |-> "notrun", outcome |-> "none", ws |-> 0]

NoGates == [pathname |-> "", allowed |-> "notrun", valid |-> "notrun"]

\* lastBroadcast: the broadcast made by the step just taken (tag "none" after
\* any other step): the frame, the registry and every readyState at the call,
\* the sockets added and removed before the call, the socket whose send raised,
\* whether broadcast raised, and the sockets the frame was delivered to.
NoBroadcast ==
  [tag |-> "none", data |-> Frame(0), sockets |-> << >>,
   states |-> [c \in Conns |-> "NONE"], added |-> {}, removed |-> {}, bad |-> 0,
   threw |-> FALSE, sentTo |-> {}]

InitWith(secrets, calls) ==
  /\ phase = "load"
  /\ MONGODB_URI \in {"", "mongodb://db"}
  /\ TOKEN \in {""} \cup secrets
  /\ now = StartNow
  /\ ipConnections = [k \in IpKeys |-> NoRecord]
  /\ activeSockets = << >>
  /\ readyState = [c \in Conns |-> "NONE"]
  /\ received = [c \in Conns |-> << >>]
  /\ eventsSeen = 0
  /\ lastUpgrade = NoAttempt
  /\ lastBroadcast = NoBroadcast
  /\ admittedBy = [c \in Conns |-> NoGates]
  /\ winFirst = [k \in IpKeys |-> 0 - 1]
  /\ winSeen = [k \in IpKeys |-> 0]
  /\ allowedLog = [k \in IpKeys |-> << >>]
  /\ feed = "none"
  /\ deleteCalls = [c \in Conns |-> 0]
  /\ lastError = 0
  /\ diffCall \in calls

\* One shared secret; the credential runs start from either of two.
Init == InitWith({"s1"}, {NoDiffCall})
InitAuth == InitWith(Secrets, {NoDiffCall})

\* The process with one POST /diff request on its way, of any body.
InitDiff == InitWith({"s1"}, DiffCalls)

Running == phase = "listening"

\* The sockets handed out so far are 1..(NextSocket - 1).
NextSocket == Cardinality({c \in Conns : readyState[c] # "NONE"}) + 1

(***************************************************************************)
(* Start-up.                                                               *)
(***************************************************************************)
\* Module evaluation: the two environment checks throw when a value is missing.
LoadModule ==
  /\ phase = "load"
  /\ phase' = IF MONGODB_URI = "" \/ TOKEN = "" THEN "exited" ELSE "starting"
  /\ lastUpgrade' = NoAttempt
  /\ lastBroadcast' = NoBroadcast
  /\ lastError' = 0
  /\ UNCHANGED <<feed, deleteCalls, diffCall>>
  /\ UNCHANGED <<MONGODB_URI, TOKEN, now, ipConnections, activeSockets,
                 readyState, received, eventsSeen, admittedBy, winFirst, winSeen,
                 allowedLog>>

\* start() after mongoClient.connect() has resolved: watch() hands back the
\* change stream at once and the 'change' handler is attached, which asks the
\* store for the stream; nothing awaits the store's answer before the server
\* is created and listens.
StartOk ==
  /\ phase = "starting"
  /\ phase' = "listening"
  /\ feed' = "requested"
  /\ lastUpgrade' = NoAttempt
  /\ lastBroadcast' = NoBroadcast
  /\ lastError' = 0
  /\ UNCHANGED <<deleteCalls, diffCall>>
  /\ UNCHANGED <<MONGODB_URI, TOKEN, now, ipConnections, activeSockets,
                 readyState, received, eventsSeen, admittedBy, winFirst, winSeen,
                 allowedLog>>

\* start() rejects (mongoClient.connect() fails): process.exit(1).
StartFail ==
  /\ phase = "starting"
  /\ phase' = "exited"
  /\ lastUpgrade' = NoAttempt
  /\ lastBroadcast' = NoBroadcast
  /\ lastError' = 0
  /\ UNCHANGED <<feed, deleteCalls, diffCall>>
  /\ UNCHANGED <<MONGODB_URI, TOKEN, now, ipConnections, activeSockets,
                 readyState, received, eventsSeen, admittedBy, winFirst, winSeen,
                 allowedLog>>

\* Date.now() moves on to a later instant of the clock.
Tick(clock) ==
  /\ phase \in {"starting", "listening"}
  /\ \E t \in clock :
       /\ t > now
       /\ now' = t
       /\ allowedLog' =
            [k \in IpKeys |->
               SelectSeq(allowedLog[k], LAMBDA x : x >= t - RATE_LIMIT_WINDOW)]
  /\ lastUpgrade' = NoAttempt
  /\ lastBroadcast' = NoBroadcast
  /\ lastError' = 0
  /\ UNCHANGED <<feed, deleteCalls, diffCall>>
  /\ UNCHANGED <<phase, MONGODB_URI, TOKEN, ipConnections, activeSockets,
                 readyState, received, eventsSeen, admittedBy, winFirst, winSeen>>

(***************************************************************************)
(* server.on('upgrade', ...)                                               *)
(***************************************************************************)
LogAppend(log, t) ==
  IF Len(log) >= MaxLog THEN Append(Tail(log), t) ELSE Append(log, t)

UpgradeHandler(req) ==
  /\ Running
  /\ LET ip      == DeriveIp(req.headers, req.remoteAddress)
         rl      == checkRateLimit(ipConnections, ip, now)
         valid   == validateToken(req.token, req.time, TOKEN, now)
         outcome == UpgradeOutcome(req.pathname, rl.allowed, valid, req.handshakeOk)
         limited == outcome # "destroyed"
         checked == outcome \notin {"destroyed", "429"}
         ws      == NextSocket
         attempt ==
           [tag |-> "upgrade", req |-> req,
            ip |-> IF limited THEN ip ELSE Absent,
            allowed |-> IF ~limited THEN "notrun"
                        ELSE IF rl.allowed THEN "true" ELSE "false",
            valid |-> IF checked THEN valid ELSE "notrun",
            outcome |-> outcome,
            ws |-> IF outcome = "admitted" THEN ws ELSE 0]
         newWindow == winFirst[ip] < 0 \/ now > winFirst[ip] + RATE_LIMIT_WINDOW
     IN
     /\ outcome = "admitted" => ws <= MaxConns
     /\ ipConnections' = IF limited THEN rl.map ELSE ipConnections
     /\ phase' = IF outcome = "threw" THEN "crashed" ELSE phase
     /\ IF outcome = "admitted"
        THEN /\ activeSockets' = SetAdd(activeSockets, ws)
             /\ readyState' = [readyState EXCEPT ![ws] = "OPEN"]
             /\ admittedBy' = [admittedBy EXCEPT ![ws] =
                                 [pathname |-> req.pathname, allowed |-> attempt.allowed,
                                  valid |-> attempt.valid]]
        ELSE UNCHANGED <<activeSockets, readyState, admittedBy>>
     /\ lastUpgrade' = attempt
     /\ IF limited
        THEN /\ winFirst' = [winFirst EXCEPT ![ip] = IF newWindow THEN now ELSE @]
             /\ winSeen' = [winSeen EXCEPT ![ip] =
                              IF newWindow THEN 1
                              ELSE IF @ >= MaxSeen THEN MaxSeen ELSE @ + 1]
             /\ allowedLog' = [allowedLog EXCEPT ![ip] =
                                 IF rl.allowed THEN LogAppend(@, now) ELSE @]
        ELSE UNCHANGED <<winFirst, winSeen, allowedLog>>
  /\ lastBroadcast' = NoBroadcast
  /\ lastError' = 0
  /\ UNCHANGED <<feed, deleteCalls, diffCall>>
  /\ UNCHANGED <<MONGODB_URI, TOKEN, now, received, eventsSeen>>

Upgrade(requests) == \E req \in requests : UpgradeHandler(req)

(***************************************************************************)
(* The life of an admitted WebSocket.                                      *)
(***************************************************************************)
\* An error handler that only logs.
wsClose_Noop(state) == state

\* ws.close() in the error handler: an OPEN socket starts the closing
\* handshake, a socket already CLOSING or CLOSED is left as it is.
wsClose(state) == IF state = "OPEN" THEN "CLOSING" ELSE state

\* ws.on('error'): the error is logged and ws.close() is called; the socket
\* stays in activeSockets.  lastError is the socket whose error handler ran in
\* the step just taken (0 after any other step).
WsError ==
  /\ Running
  /\ \E ws \in Conns :
       /\ readyState[ws] \in {"OPEN", "CLOSING", "CLOSED"}
       /\ readyState' = [readyState EXCEPT ![ws] = wsClose(@)]
       /\ lastError' = ws
  /\ lastUpgrade' = NoAttempt
  /\ lastBroadcast' = NoBroadcast
  /\ UNCHANGED <<feed, deleteCalls, diffCall>>
  /\ UNCHANGED <<phase, MONGODB_URI, TOKEN, now, ipConnections,
                 activeSockets, received, eventsSeen, admittedBy, winFirst, winSeen,
                 allowedLog>>

\* The peer starts the closing handshake: readyState becomes CLOSING, no
\* handler of the program runs yet.
PeerClosing ==
  /\ Running
  /\ \E ws \in Conns :
       /\ readyState[ws] = "OPEN"
       /\ readyState' = [readyState EXCEPT ![ws] = "CLOSING"]
  /\ lastUpgrade' = NoAttempt
  /\ lastBroadcast' = NoBroadcast
  /\ lastError' = 0
  /\ UNCHANGED <<feed, deleteCalls, diffCall>>
  /\ UNCHANGED <<phase, MONGODB_URI, TOKEN, now, ipConnections,
                 activeSockets, received, eventsSeen, admittedBy, winFirst, winSeen,
                 allowedLog>>

\* ws.on('close') of socket ws: the channel is closed and the handler deletes
\* the socket.  deleteCalls[ws] counts the calls of activeSockets.delete(ws).
WsCloseOf(ws) ==
  /\ Running
  /\ readyState[ws] \in {"OPEN", "CLOSING"}
  /\ readyState' = [readyState EXCEPT ![ws] = "CLOSED"]
  /\ activeSockets' = SetDelete(activeSockets, ws)
  /\ deleteCalls' = [deleteCalls EXCEPT ![ws] = @ + 1]
  /\ lastUpgrade' = NoAttempt
  /\ lastBroadcast' = NoBroadcast
  /\ lastError' = 0
  /\ UNCHANGED <<feed, diffCall>>
  /\ UNCHANGED <<phase, MONGODB_URI, TOKEN, now, ipConnections, received,
                 eventsSeen, admittedBy, winFirst, winSeen, allowedLog>>

WsClose == \E ws \in Conns : WsCloseOf(ws)

\* The 'close' event of a socket whose closing handshake has begun: it is
\* delivered once the peer answers or the close timer of the socket runs out.
CloseDelivered(ws) == readyState[ws] = "CLOSING" /\ WsCloseOf(ws)

(***************************************************************************)
(* The change stream.                                                      *)
(***************************************************************************)
\* The store answers the request for the stream: events can arrive.
FeedOpen ==
  /\ Running
  /\ feed = "requested"
  /\ feed' = "open"
  /\ lastUpgrade' = NoAttempt
  /\ lastBroadcast' = NoBroadcast
  /\ lastError' = 0
  /\ UNCHANGED <<phase, MONGODB_URI, TOKEN, now, ipConnections, activeSockets,
                 readyState, received, eventsSeen, admittedBy, winFirst, winSeen,
                 allowedLog, deleteCalls, diffCall>>

\* The stream fails, when it is requested or later: the change stream emits
\* 'error', no handler is registered for it, and the exception ends the
\* process.
FeedFail ==
  /\ Running
  /\ feed \in {"requested", "open"}
  /\ feed' = "failed"
  /\ phase' = "crashed"
  /\ lastUpgrade' = NoAttempt
  /\ lastBroadcast' = NoBroadcast
  /\ lastError' = 0
  /\ UNCHANGED <<MONGODB_URI, TOKEN, now, ipConnections, activeSockets,
                 readyState, received, eventsSeen, admittedBy, winFirst, winSeen,
                 allowedLog, deleteCalls, diffCall>>

(***************************************************************************)
(* changeStream.on('change', ...)                                          *)
(***************************************************************************)
\* One change event is broadcast.  bad is the socket whose send raises (0:
\* none does).  The handler has no try/catch: when broadcast raises, the
\* emitter either lets the exception end the process or swallows it.
ChangeEvent ==
  /\ Running
  /\ feed = "open"
  /\ eventsSeen < MaxEvents
  /\ \E bad \in {0} \cup Conns, fatal \in BOOLEAN :
       LET data == Frame(eventsSeen + 1)
           res  == broadcast(activeSockets, readyState, received, data, bad)
       IN /\ fatal => res.threw
          /\ received' = res.received
          /\ eventsSeen' = eventsSeen + 1
          /\ phase' = IF res.threw /\ fatal THEN "crashed" ELSE phase
          /\ lastBroadcast' =
               [tag |-> "broadcast", data |-> data, sockets |-> activeSockets,
                states |-> readyState,
                added |-> {c \in Conns : admittedBy[c] # NoGates},
                removed |-> {c \in Conns : admittedBy[c] # NoGates
                                            /\ c \notin Members(activeSockets)},
                bad |-> bad, threw |-> res.threw,
                sentTo |-> {c \in Conns : res.received[c] = Append(received[c], data)}]
  /\ lastUpgrade' = NoAttempt
  /\ lastError' = 0
  /\ UNCHANGED <<feed, deleteCalls, diffCall>>
  /\ UNCHANGED <<MONGODB_URI, TOKEN, now, ipConnections, activeSockets,
                 readyState, admittedBy, winFirst, winSeen, allowedLog>>

(***************************************************************************)
(* POST /diff                                                              *)
(***************************************************************************)
\* The request handler parses the body into old and new and answers with the
\* entries of generateDiff(old, new).
DiffRequest ==
  /\ Running
  /\ diffCall.tag = "pending"
  /\ diffCall' = [diffCall EXCEPT !.tag = "done",
                                  !.diff = generateDiff(diffCall.old, diffCall.next, << >>)]
  /\ lastUpgrade' = NoAttempt
  /\ lastBroadcast' = NoBroadcast
  /\ lastError' = 0
  /\ UNCHANGED <<phase, MONGODB_URI, TOKEN, now, ipConnections, activeSockets,
                 readyState, received, eventsSeen, admittedBy, winFirst, winSeen,
                 allowedLog, feed, deleteCalls>>

(***************************************************************************)
(* Specifications.                                                         *)
(***************************************************************************)
\* The gateway: admission, the life of the sockets, and the broadcasts, all
\* within one instant of the clock (the other specifications let it advance:
\* only checkRateLimit and validateToken read it).
Next ==
  \/ LoadModule
  \/ StartOk
  \/ StartFail
  \/ Upgrade(GatewayRequests(TOKEN, now))
  \/ WsError
  \/ PeerClosing
  \/ WsClose
  \/ FeedOpen
  \/ FeedFail
  \/ ChangeEvent

Spec == Init /\ [][Next]_vars

\* The life of the sockets without the broadcasts, with the 'close' event of
\* every closing socket eventually delivered.
NextLife ==
  \/ LoadModule
  \/ StartOk
  \/ StartFail
  \/ Upgrade(GatewayRequests(TOKEN, now))
  \/ WsError
  \/ PeerClosing
  \/ WsClose
  \/ FeedOpen
  \/ FeedFail

SpecLife ==
  /\ Init
  /\ [][NextLife]_vars
  /\ \A ws \in Conns : WF_vars(CloseDelivered(ws))

\* Credentials of every shape against validateToken.
NextAuth ==
  \/ LoadModule
  \/ StartOk
  \/ StartFail
  \/ Tick(CoarseClock)
  \/ Upgrade(AuthRequests(TOKEN, now))

SpecAuth == InitAuth /\ [][NextAuth]_vars

\* Requests with and without forwarding headers.
NextAddr ==
  \/ LoadModule
  \/ StartOk
  \/ StartFail
  \/ Tick(CoarseClock)
  \/ Upgrade(AddrRequests(TOKEN, now))

SpecAddr == Init /\ [][NextAddr]_vars

\* Many attempts from two peers on the fine clock.
NextRate ==
  \/ LoadModule
  \/ StartOk
  \/ StartFail
  \/ Tick(FineClock)
  \/ Upgrade(RateRequests(TOKEN, now))

SpecRate == Init /\ [][NextRate]_vars

\* One POST /diff request of any body.
NextDiff ==
  \/ LoadModule
  \/ StartOk
  \/ StartFail
  \/ DiffRequest

SpecDiff == InitDiff /\ [][NextDiff]_vars

(***************************************************************************)
(* Properties.                                                             *)
(***************************************************************************)
Registered == Members(activeSockets)
Admitted(ws) == admittedBy[ws] # NoGates
PassedGates == [pathname |-> "/ws", allowed |-> "true", valid |-> "true"]

\* The upgrade attempt just handled got as far as the rate limiter / the token check.
RateChecked == lastUpgrade.tag = "upgrade" /\ lastUpgrade.allowed # "notrun"
AuthChecked == lastUpgrade.tag = "upgrade" /\ lastUpgrade.valid # "notrun"

\* C1: every socket in activeSockets was produced by an upgrade attempt on
\* /ws that the rate limiter allowed and whose credential validateToken
\* accepted; an attempt on another path, or refused at either gate, hands out
\* no socket and leaves every registered socket one that passed both gates.
C1_RegistryOnlyAdmitted ==
  /\ \A ws \in Registered : admittedBy[ws] = PassedGates
  /\ ( lastUpgrade.tag = "upgrade"
       /\ ( lastUpgrade.req.pathname # "/ws"
            \/ lastUpgrade.allowed # "true"
            \/ lastUpgrade.valid # "true" ) )
     => lastUpgrade.ws \notin Registered

\* A rejected attempt after an admission: the registry holds the admitted socket only.
C1_Witness ==
  /\ activeSockets # << >>
  /\ lastUpgrade.outcome = "401"

\* C2 (as claimed): a supplied token that differs from the expected HMAC hex
\* string, of any length, sent with a parseable fresh timestamp, makes
\* validateToken return false without raising, and the attempt ends with 401.
C2_WrongTokenUnauthorized ==
  ( RateChecked
    /\ lastUpgrade.allowed = "true"
    /\ lastUpgrade.req.token.kind # "null"
    /\ lastUpgrade.req.time.kind = "dec"
    /\ Abs(now - lastUpgrade.req.time.n) <= FRESH_WINDOW
    /\ lastUpgrade.req.token # HmacHex(TOKEN, lastUpgrade.req.time) )
  => ( lastUpgrade.valid = "false" /\ lastUpgrade.outcome = "401" )

\* The connections added before the broadcast just made and not removed since.
ClaimedRecipients == lastBroadcast.added \ lastBroadcast.removed

\* The registered connections that were open at the broadcast just made.
OpenRecipients ==
  {c \in Members(lastBroadcast.sockets) : lastBroadcast.states[c] = "OPEN"}

Pos(seq, x) == Min({i \in 1..Len(seq) : seq[i] = x})

C4_SendFailureIsolated ==
  ( lastBroadcast.tag = "broadcast" /\ lastBroadcast.bad \in OpenRecipients )
  => /\ ~lastBroadcast.threw
     /\ \A c \in OpenRecipients \ {lastBroadcast.bad} : c \in lastBroadcast.sentTo

\* C5 (as claimed): a connection is registered iff it is admitted and its
\* channel is open.
C5_RegisteredIffOpen ==
  \A ws \in Conns :
    ws \in Registered <=> (Admitted(ws) /\ readyState[ws] = "OPEN")

\* C5 (amended): a connection is registered iff it is admitted and its close
\* notification has not been delivered, that is its channel is open or
\* closing; no closed connection is registered and no admitted open
\* connection is missing.
C5_RegisteredIffNotClosed ==
  \A ws \in Conns :
    ws \in Registered <=> (Admitted(ws) /\ readyState[ws] \in {"OPEN", "CLOSING"})

\* A registered connection that is closing, beside a removed one.
C5_Witness ==
  /\ \E ws \in Registered : readyState[ws] = "CLOSING"
  /\ \E ws \in Conns : readyState[ws] = "CLOSED" /\ ws \notin Registered

\* C6: for one address, with winFirst the time of the first attempt of the
\* current 60 s window and winSeen the number of attempts made in it: the
\* first five are allowed, the sixth and later ones (all made no later than
\* winFirst + 60 s) are refused, and the first attempt made after
\* winFirst + 60 s is allowed and leaves the record {count: 1, resetTime:
\* now + 60 s}.
C6_FixedWindow ==
  RateChecked =>
    LET ip == lastUpgrade.ip IN
    /\ winSeen[ip] <= MAX_CONNECTIONS_PER_IP => lastUpgrade.allowed = "true"
    /\ winSeen[ip] > MAX_CONNECTIONS_PER_IP =>
         ( lastUpgrade.allowed = "false" /\ now <= winFirst[ip] + RATE_LIMIT_WINDOW )
    /\ winSeen[ip] = 1 =>
         ipConnections[ip] = [count |-> 1, resetTime |-> now + RATE_LIMIT_WINDOW]
    /\ winSeen[ip] > 1 =>
         ipConnections[ip].resetTime = winFirst[ip] + RATE_LIMIT_WINDOW

\* The first attempt after a full window: allowed, the record replaced.
C6_Witness ==
  /\ RateChecked
  /\ lastUpgrade.allowed = "true"
  /\ winSeen[lastUpgrade.ip] = 1
  /\ Len(allowedLog[lastUpgrade.ip]) >= MAX_CONNECTIONS_PER_IP
  /\ now > StartNow + RATE_LIMIT_WINDOW

\* Allowed attempts of address k from the i-th logged one on, no later than `until`.
AllowedFrom(k, i, until) ==
  Cardinality({j \in i..Len(allowedLog[k]) : allowedLog[k][j] <= until})

ClaimedAddress(headers, remoteAddress) ==
  LET hits == {i \in 1..Len(ipHeaders) : Truthy(headers[ipHeaders[i]])} IN
  IF hits # {} THEN headers[ipHeaders[Min(hits)]]
  ELSE IF Truthy(remoteAddress) THEN remoteAddress
  ELSE "unknown"

\* C8 (as claimed): the address passed to the rate limiter is the value of
\* the first forwarding header present on the request, else the peer
\* address, else "unknown".
C8_AddressIsHeaderValue ==
  RateChecked =>
    lastUpgrade.ip = ClaimedAddress(lastUpgrade.req.headers, lastUpgrade.req.remoteAddress)

\* C9: a credential whose timestamp is more than 5 minutes from now, in the
\* past or in the future, is refused whatever the token, the correct HMAC of
\* that timestamp included: validateToken returns false and the attempt ends
\* with 401, no socket admitted.
C9_StaleRefused ==
  ( RateChecked
    /\ lastUpgrade.allowed = "true"
    /\ ~parseInt(lastUpgrade.req.time).nan
    /\ Abs(now - parseInt(lastUpgrade.req.time).val) > FRESH_WINDOW )
  => ( lastUpgrade.valid = "false" /\ lastUpgrade.outcome = "401" /\ lastUpgrade.ws = 0 )

\* The correct HMAC of a timestamp 5 minutes and 1 ms old is refused.
C9_Witness ==
  /\ AuthChecked
  /\ lastUpgrade.req.time = TsString("dec", now - FRESH_WINDOW - 1)
  /\ lastUpgrade.req.token = HmacHex(TOKEN, lastUpgrade.req.time)
  /\ lastUpgrade.outcome = "401"

\* C10: for either secret and every integer timestamp at most 5 minutes from
\* now, in the past or in the future, the boundary included, validateToken
\* accepts the HMAC of the timestamp under the secret.
C10_FreshHmacAccepted ==
  ( RateChecked
    /\ lastUpgrade.allowed = "true"
    /\ lastUpgrade.req.time.kind = "dec"
    /\ Abs(now - lastUpgrade.req.time.n) <= FRESH_WINDOW
    /\ lastUpgrade.req.token = HmacHex(TOKEN, lastUpgrade.req.time) )
  => lastUpgrade.valid = "true"

\* The HMAC of a timestamp exactly 5 minutes ahead is accepted under the second secret.
C10_Witness ==
  /\ AuthChecked
  /\ TOKEN = "s2"
  /\ lastUpgrade.req.time = TsString("dec", now + FRESH_WINDOW)
  /\ lastUpgrade.req.token = HmacHex(TOKEN, lastUpgrade.req.time)
  /\ lastUpgrade.valid = "true"
  /\ lastUpgrade.outcome = "admitted"

\* C11 (as claimed): an admitted connection leaves the registry only when
\* its channel closes, and once a channel has closed every later broadcast
\* attempts no delivery to it and raises no error.
C11_ClosedThenQuietBroadcasts ==
  [][ /\ \A c \in Conns :
           (c \in Registered /\ c \notin Members(activeSockets'))
             => readyState'[c] = "CLOSED"
      /\ ( lastBroadcast'.tag = "broadcast"
           /\ \E c \in Conns : lastBroadcast'.states[c] = "CLOSED" )
         => /\ \A c \in Conns :
                 lastBroadcast'.states[c] = "CLOSED" => c \notin lastBroadcast'.sentTo
            /\ ~lastBroadcast'.threw ]_vars

\* C12: the 'error' handler closes the channel and the 'close' handler deletes
\* the socket, once: activeSockets.delete(ws) is never called twice for one
\* socket and has been called exactly when the socket is CLOSED; right after
\* its 'error' handler has run a socket is CLOSING or CLOSED; and, the 'close'
\* event of every closing socket being delivered, a socket whose 'error'
\* handler has run is eventually CLOSED and out of activeSockets after one
\* delete, for as long as the process lives, whether the error came first, came
\* after the peer began to close, or came after the 'close' event.
C12_ErrorLeadsToOneRemoval ==
  /\ [](\A c \in Conns :
          /\ deleteCalls[c] <= 1
          /\ (deleteCalls[c] = 1) <=> (readyState[c] = "CLOSED")
          /\ readyState[c] = "CLOSED" => c \notin Registered
          /\ lastError = c => readyState[c] \in {"CLOSING", "CLOSED"})
  /\ \A c \in Conns :
       (lastError = c) ~>
         ( \/ /\ readyState[c] = "CLOSED"
              /\ c \notin Registered
              /\ deleteCalls[c] = 1
           \/ phase = "crashed" )

\* The 'error' handler of a registered socket has just run: the socket is
\* closing and still registered, another socket is open.
C12_Witness ==
  /\ lastError = 1
  /\ readyState[1] = "CLOSING"
  /\ 1 \in Registered
  /\ \E c \in Conns : readyState[c] = "OPEN"

\* The upgrade attempt handled by the step ended in a rejection.
RejectedStep(outcomes) ==
  lastUpgrade'.tag = "upgrade" /\ lastUpgrade'.outcome \in outcomes

\* C13 (as claimed): an upgrade attempt that ends in 429 or in 401 leaves
\* activeSockets and ipConnections as they were before it.
C13_RejectedLeavesNothing ==
  [][ RejectedStep({"429", "401"})
        => /\ activeSockets' = activeSockets
           /\ ipConnections' = ipConnections ]_vars

\* C13 (amended): an attempt that ends in 429 or in 401 leaves activeSockets
\* and every readyState as they were; one that ends in 429 leaves ipConnections
\* as it was; one that ends in 401 has been counted: the record of its address
\* is a new one (count 1, reset at now + window) when there was none or the old
\* one had expired, else the old one with count one higher, and no other
\* record has changed.
C13_RejectedIsCountedOnly ==
  [][ /\ RejectedStep({"429", "401"})
           => /\ activeSockets' = activeSockets
              /\ readyState' = readyState
              /\ admittedBy' = admittedBy
      /\ RejectedStep({"429"}) => ipConnections' = ipConnections
      /\ RejectedStep({"401"})
           => LET ip  == lastUpgrade'.ip
                  old == ipConnections[ip]
              IN ipConnections' =
                   [ipConnections EXCEPT ![ip] =
                      IF old = NoRecord \/ now > old.resetTime
                      THEN [count |-> 1, resetTime |-> now + RATE_LIMIT_WINDOW]
                      ELSE [count |-> old.count + 1, resetTime |-> old.resetTime]] ]_vars

\* An attempt has just ended in 401 while a socket is registered, and it was
\* not the first attempt of its address in the window.
C13_Witness ==
  /\ lastUpgrade.tag = "upgrade"
  /\ lastUpgrade.outcome = "401"
  /\ Registered # {}
  /\ ipConnections[lastUpgrade.ip].count >= 2

\* The frames a connection has received are frames of distinct change events
\* in the order the events arrived (events are numbered in that order).
InOrderOnce(frames) ==
  /\ \A i \in 1..Len(frames) :
       frames[i].type = "db_change" /\ frames[i].data \in 1..eventsSeen
  /\ \A i, j \in 1..Len(frames) : i < j => frames[i].data < frames[j].data

\* C14 (as claimed): every connection receives at most one frame per change
\* event, the frames are {type: "db_change", data: event} in the order of the
\* events, and a connection that is registered and open when an event is
\* handled receives exactly one frame for it.
C14_ExactlyOneFrameInOrder ==
  /\ \A c \in Conns : InOrderOnce(received[c])
  /\ lastBroadcast.tag = "broadcast"
       => \A c \in Members(lastBroadcast.sockets) :
            lastBroadcast.states[c] = "OPEN"
              => /\ Len(received[c]) > 0
                 /\ received[c][Len(received[c])] = Frame(eventsSeen)

\* Some upgrade attempt has been admitted so far.
EverAdmitted == \E c \in Conns : Admitted(c)

\* C15 (as claimed): the process listens and admits only once the store is
\* connected and the change stream is subscribed; when the data-source string
\* or the secret is missing, or connecting or subscribing fails, the process
\* ends without having admitted a connection; so no connection is registered
\* in a running process whose change stream is not subscribed.
C15_AdmitsOnlyWithFeed ==
  /\ (lastUpgrade.tag = "upgrade" /\ lastUpgrade.outcome = "admitted") => feed = "open"
  /\ (MONGODB_URI = "" \/ TOKEN = "") => (phase \in {"load", "exited"} /\ ~EverAdmitted)
  /\ phase = "exited" => ~EverAdmitted
  /\ feed = "failed" => ~EverAdmitted
  /\ (Running /\ Registered # {}) => feed = "open"

\* What the claims about generateDiff speak of: the value at a sequence of
\* keys (undefined where there is none), the key sequences of a value, the
\* dotted path of a key sequence, and the entry the claims expect at one.
RECURSIVE ValueAt(_, _)
ValueAt(v, keys) ==
  IF keys = << >> THEN v ELSE ValueAt(Lookup(v, Head(keys)), Tail(keys))

RECURSIVE NodePaths(_)
NodePaths(v) ==
  IF ~IsObject(v) THEN {}
  ELSE UNION { {<<v.kids[i].key>>}
               \cup {<<v.kids[i].key>> \o q : q \in NodePaths(v.kids[i].val)} :
               i \in 1..Len(v.kids) }

\* The paths to values that hold nothing below them (an empty object included).
LeafPaths(v) == {q \in NodePaths(v) : ValueAt(v, q).kids = << >>}

Dotted(keys) ==
  [i \in 1..(2 * Len(keys) - 1) |-> IF i % 2 = 1 THEN keys[(i + 1) \div 2] ELSE "."]

EntryAt(a, b, keys) ==
  LET va == ValueAt(a, keys)
      vb == ValueAt(b, keys)
  IN IF va = JUndefined THEN Added(Dotted(keys), vb)
     ELSE IF vb = JUndefined THEN Removed(Dotted(keys), va)
     ELSE Changed(Dotted(keys), va, vb)

RECURSIVE IsObjectTree(_)
IsObjectTree(v) ==
  /\ v.t = "object"
  /\ \A i \in 1..Len(v.kids) :
       ~IsObject(v.kids[i].val) \/ IsObjectTree(v.kids[i].val)

DiffDone == diffCall.tag = "done"
DiffEntries == {diffCall.diff[i] : i \in 1..Len(diffCall.diff)}
ObjectsDiffed == DiffDone /\ IsObjectTree(diffCall.old) /\ IsObjectTree(diffCall.next)

RECURSIVE Canon(_)
Canon(v) ==
  [t |-> v.t, n |-> v.n,
   kids |-> {<<v.kids[i].key, Canon(v.kids[i].val)>> : i \in 1..Len(v.kids)}]

\* A value as generateDiff reads it: an object and an array are both a set of
\* keyed values.
RECURSIVE Keyed(_)
Keyed(v) ==
  IF IsObject(v)
  THEN [t |-> "keyed", n |-> 0,
        kids |-> {<<v.kids[i].key, Keyed(v.kids[i].val)>> : i \in 1..Len(v.kids)}]
  ELSE [t |-> v.t, n |-> v.n, kids |-> {}]

KeyedAtTop(v) ==
  IF IsObject(v) THEN Keyed(v) ELSE [t |-> "keyed", n |-> 0, kids |-> {}]

RefusedStep == lastUpgrade'.tag = "upgrade" /\ lastUpgrade'.allowed = "false"

\* C17: every record of ipConnections has a count from 1 to
\* MAX_CONNECTIONS_PER_IP, and an attempt that checkRateLimit refuses leaves
\* the count and the reset time of every record as they were.
C17_CountWithinMaximum ==
  [][ /\ \A k \in IpKeys :
           ipConnections'[k] # NoRecord
             => /\ ipConnections'[k].count >= 1
                /\ ipConnections'[k].count <= MAX_CONNECTIONS_PER_IP
      /\ RefusedStep
           => \A k \in IpKeys :
                /\ ipConnections'[k].count = ipConnections[k].count
                /\ ipConnections'[k].resetTime = ipConnections[k].resetTime ]_vars

\* An attempt has just been refused: the record of its address stands at the
\* maximum, and another address has a record too.
C17_Witness ==
  /\ lastUpgrade.tag = "upgrade"
  /\ lastUpgrade.allowed = "false"
  /\ ipConnections[lastUpgrade.ip].count = MAX_CONNECTIONS_PER_IP
  /\ \E k \in IpKeys \ {lastUpgrade.ip} : ipConnections[k] # NoRecord

\* C18: the reset time of an address's record changes only in an attempt of
\* that address made when it has no record or now > its reset time, and then
\* the record becomes {count 1, reset at now + window}; an attempt made while
\* the window is active (now <= reset time) leaves the reset time alone; and
\* no step changes the record of an address other than the one whose attempt
\* it handles.
C18_ResetOnlyOnExpiry ==
  [][ \A k \in IpKeys :
        LET old == ipConnections[k]
            new == ipConnections'[k]
            own == lastUpgrade'.tag = "upgrade" /\ lastUpgrade'.ip = k
        IN /\ new # old => own
           /\ new.resetTime # old.resetTime
                => /\ old = NoRecord \/ now > old.resetTime
                   /\ new = [count |-> 1, resetTime |-> now + RATE_LIMIT_WINDOW]
           /\ (own /\ old # NoRecord /\ now <= old.resetTime)
                => new.resetTime = old.resetTime ]_vars

\* An attempt has just opened a new window for its address at a later instant,
\* while the expired record of another address stands as it was.
C18_Witness ==
  /\ lastUpgrade.tag = "upgrade"
  /\ now > StartNow + RATE_LIMIT_WINDOW
  /\ ipConnections[lastUpgrade.ip] = [count |-> 1, resetTime |-> now + RATE_LIMIT_WINDOW]
  /\ \E k \in IpKeys \ {lastUpgrade.ip} :
       ipConnections[k] # NoRecord /\ ipConnections[k].resetTime < now

\* C19 (as claimed): whatever happens to the other connections before or
\* during the broadcast of a change event (admission, rejection, close, error,
\* a failing send), every connection that is registered and open when the
\* event is handled, other than one whose own send fails, receives the frame
\* of that event.
C19_NoEventMissedByOthers ==
  lastBroadcast.tag = "broadcast"
    => \A c \in OpenRecipients \ {lastBroadcast.bad} :
         \E i \in 1..Len(received[c]) : received[c][i] = lastBroadcast.data

====
